---- MODULE Spec2Model ----
(***************************************************************************)
(* A model of foam_gen.py: the overlap predicate check_overlap, the        *)
(* placement loop generate_random_pores with numpy's process-wide random   *)
(* generator, and the surface-line formatter make_pore_surf_lines.         *)
(*                                                                         *)
(* Numbers.  Coordinates and radii are integers (a grid); arithmetic on    *)
(* them is exact.  np.sqrt is modelled by the integer floor of the root,   *)
(* which decides `distance < r1 + r2` exactly when r1 + r2 is an integer.  *)
(*                                                                         *)
(* The generator.  np.random is one generator shared by every call of the  *)
(* process.  Its state is gen = [known, s].  While known is FALSE the      *)
(* state is whatever the operating system's entropy made it, and a draw    *)
(* may return any variate.  np.random.seed puts it in a state that is a    *)
(* function of the seed; from then on every draw is a function of the      *)
(* state (a small congruential generator stands for MT19937).              *)
(***************************************************************************)
EXTENDS Integers, Sequences, FiniteSets, TLC

VARIABLES
    pc,            \* "idle", "outer" (line 104), "inner" (line 106), "done"
    num_pores, x_range, y_range, z_range, r_min, r_max, max_attempts, seed,
    pores,         \* line 102
    i,             \* line 104
    placed,        \* line 105
    attempt,       \* line 106
    cand,          \* the locals x, y, z, r of lines 108-111 (<<>> before the first draw)
    result,        \* what the call returned: [tag, val]
    gen,           \* the state of the process-wide generator np.random
    consumed,      \* calls of np.random.uniform made by the current run
    calls,         \* calls of generate_random_pores made so far
    entry_gen,     \* the generator state the current run started drawing from
    seen,          \* first outcome of every argument tuple called so far
    ov,            \* check_overlap: its input, its output, whether it ran
    surf           \* make_pore_surf_lines: its input, its output, whether it ran

params == <<num_pores, x_range, y_range, z_range, r_min, r_max, max_attempts, seed>>
loopvars == <<pores, i, placed, attempt, cand>>
genvars == <<gen, consumed, entry_gen>>
purevars == <<ov, surf>>
vars == <<pc, params, loopvars, result, genvars, calls, seen, purevars>>

----------------------------------------------------------------------------
(* Bounds of the model *)

MaxPores == 2
MaxAttempts == 2
MaxCalls == 3
Grain == 2
OvMax == 2
MaxLines == 3

\* seed=None (line 82)
NoSeed == -1

Seeds == {0, 1}

\* (x_range, y_range, z_range) triples the calls are made with: a block, a
\* line, and a box whose x range is given the wrong way round
Boxes ==
    { << <<0, 2>>, <<0, 1>>, <<0, 1>> >>,
      << <<0, 2>>, <<1, 1>>, <<0, 0>> >>,
      << <<2, 0>>, <<0, 2>>, <<1, 1>> >> }

\* (r_min, r_max) pairs: the last one is the wrong way round
RadiusRanges == { <<1, 2>>, <<2, 2>>, <<2, 1>> }

Args ==
    [ num_pores : 0..MaxPores, box : Boxes, rad : RadiusRanges,
      max_attempts : 0..MaxAttempts, seed : {NoSeed} \cup Seeds ]

\* the arguments of the calls made one after another
SeqArgs ==
    [ num_pores : {1, MaxPores}, box : { << <<0, 2>>, <<0, 1>>, <<0, 1>> >> },
      rad : { <<1, 2>> }, max_attempts : {1, MaxAttempts},
      seed : {NoSeed} \cup Seeds ]

\* the states the process may find its generator in
BootStates == {3, 51}

\* the inputs check_overlap is applied to
OvInputs ==
    { <<x1, y1, z1, r1, x2, y2, z2, r2>> :
        x1 \in 0..1, y1 \in 0..1, z1 \in {0}, r1 \in (-1)..OvMax,
        x2 \in 0..OvMax, y2 \in 0..OvMax, z2 \in 0..OvMax, r2 \in 0..OvMax }

\* the pore lists make_pore_surf_lines is applied to
SurfPores == { <<x, 0, z, r>> : x \in {0, 1}, z \in {0, 2}, r \in {1, 2} }

RECURSIVE ListsUpTo(_, _)
ListsUpTo(S, n) ==
    IF n = 0 THEN { <<>> }
    ELSE LET shorter == ListsUpTo(S, n - 1)
         IN  shorter \cup { Append(l, e) : l \in shorter, e \in S }

----------------------------------------------------------------------------
(* check_overlap *)

ISqrt(n) == CHOOSE k \in 0..n : k * k <= n /\ (k + 1) * (k + 1) > n

check_overlap_le(x1, y1, z1, r1, x2, y2, z2, r2) ==
    LET distance == ISqrt((x2 - x1)^2 + (y2 - y1)^2 + (z2 - z1)^2)
    IN  distance <= (r1 + r2)

check_overlap(x1, y1, z1, r1, x2, y2, z2, r2) ==
    LET distance == ISqrt((x2 - x1)^2 + (y2 - y1)^2 + (z2 - z1)^2)
    IN  distance < (r1 + r2)

----------------------------------------------------------------------------
(* np.random *)

\* the generator's transition and the variate in 0..Grain (of Grain) it returns
Step(s) == (21 * s + 7) % 64
Variate(s) == (s * (Grain + 1)) \div 64
SeedState(sd) == (37 * sd + 11) % 64

\* np.random.seed(seed), line 99-100
SeedIgnored(sd) == gen

Seeded(sd) ==
    IF sd # NoSeed THEN [known |-> TRUE, s |-> SeedState(sd)] ELSE gen

\* random_sample(): the variates a draw may return in state g, and the state after
Sample(g) == IF g.known THEN {Variate(g.s)} ELSE 0..Grain
Advance(g) == IF g.known THEN [g EXCEPT !.s = Step(g.s)] ELSE g

\* np.random.uniform(low, high) = low + (high - low) * random_sample()
UniformOver(low, high, u) == low + ((high + 1 - low) * u) \div Grain

Uniform(low, high, u) == low + ((high - low) * u) \div Grain

\* lines 108-111: the candidates <<x, y, z, r>> one attempt may draw from state g
Draw(g) ==
    LET g1 == Advance(g)
        g2 == Advance(g1)
        g3 == Advance(g2)
    IN  { << Uniform(x_range[1], x_range[2], ux), Uniform(y_range[1], y_range[2], uy),
             Uniform(z_range[1], z_range[2], uz), Uniform(r_min, r_max, ur) >> :
          ux \in Sample(g), uy \in Sample(g1), uz \in Sample(g2), ur \in Sample(g3) }

AfterDraw(g) == Advance(Advance(Advance(Advance(g))))

----------------------------------------------------------------------------
(* generate_random_pores *)

None == [tag |-> "None", val |-> <<>>]
Pending == [tag |-> "pending", val |-> <<>>]
List(ps) == [tag |-> "list", val |-> ps]

\* line 102
StalePores == pores

FreshPores == <<>>

\* lines 114-118
OverlapsButLast(c, ps) ==
    \E k \in 1..(Len(ps) - 1) :
        check_overlap(c[1], c[2], c[3], c[4], ps[k][1], ps[k][2], ps[k][3], ps[k][4])

Overlaps(c, ps) ==
    \E k \in 1..Len(ps) :
        check_overlap(c[1], c[2], c[3], c[4], ps[k][1], ps[k][2], ps[k][3], ps[k][4])

\* line 121
Prepended(ps, c) == <<c>> \o ps

Accepted(ps, c) == Append(ps, c)

\* line 106: range(max_attempts) has run out
ExhaustedLate == attempt > max_attempts

Exhausted == attempt >= max_attempts

\* line 104: range(num_pores) has run out
AllButOnePlaced == i >= num_pores - 1

AllPlaced == i >= num_pores

\* line 127
Partial == List(pores)

Failure == None

Key == params

Record(res) ==
    IF \E e \in seen : e.key = Key THEN seen
    ELSE seen \cup {[key |-> Key, gen |-> entry_gen, res |-> res, call |-> calls]}

\* lines 99-102: the call is entered
Enter(a) ==
    /\ calls' = calls + 1
    /\ num_pores' = a.num_pores
    /\ x_range' = a.box[1]
    /\ y_range' = a.box[2]
    /\ z_range' = a.box[3]
    /\ r_min' = a.rad[1]
    /\ r_max' = a.rad[2]
    /\ max_attempts' = a.max_attempts
    /\ seed' = a.seed
    /\ gen' = Seeded(a.seed)
    /\ entry_gen' = gen'
    /\ consumed' = 0
    /\ pores' = FreshPores
    /\ i' = 0
    /\ placed' = FALSE
    /\ attempt' = 0
    /\ cand' = <<>>
    /\ result' = Pending
    /\ pc' = "outer"
    /\ UNCHANGED <<seen, purevars>>

\* lines 104-105: the next pore's budget starts
NextPore ==
    /\ pc = "outer"
    /\ ~AllPlaced
    /\ placed' = FALSE
    /\ attempt' = 0
    /\ pc' = "inner"
    /\ UNCHANGED <<params, pores, i, cand, result, genvars, calls, seen, purevars>>

\* lines 106-123: one attempt: draw, test, accept or go on
Attempt ==
    /\ pc = "inner"
    /\ ~Exhausted
    /\ \E c \in Draw(gen) :
        /\ cand' = c
        /\ IF ~Overlaps(c, pores)
           THEN /\ pores' = Accepted(pores, c)
                /\ placed' = TRUE
                /\ i' = i + 1
                /\ pc' = "outer"
                /\ UNCHANGED attempt
           ELSE /\ attempt' = attempt + 1
                /\ UNCHANGED <<pores, placed, i, pc>>
    /\ gen' = AfterDraw(gen)
    /\ consumed' = consumed + 4
    /\ UNCHANGED <<params, result, entry_gen, calls, seen, purevars>>

\* lines 125-127: the budget ran out
GiveUp ==
    /\ pc = "inner"
    /\ Exhausted
    /\ ~placed
    /\ result' = Failure
    /\ seen' = Record(result')
    /\ pc' = "done"
    /\ UNCHANGED <<params, loopvars, genvars, calls, purevars>>

\* line 129
ReturnPores ==
    /\ pc = "outer"
    /\ AllPlaced
    /\ result' = List(pores)
    /\ seen' = Record(result')
    /\ pc' = "done"
    /\ UNCHANGED <<params, loopvars, genvars, calls, purevars>>

----------------------------------------------------------------------------
(* make_pore_surf_lines *)

make_spherical_pore_string(x, y, z, rad, num) ==
    << ToString(num), "s", ToString(x), ToString(y), ToString(z), ToString(rad) >>

RECURSIVE SurfLoop(_, _, _)
SurfLoop(ps, num, surf_lines) ==
    IF ps = <<>> THEN surf_lines
    ELSE LET p == Head(ps)
         IN  SurfLoop(Tail(ps), num + 1,
                      Append(surf_lines,
                             make_spherical_pore_string(p[1], p[2], p[3], p[4], num)))

make_pore_surf_lines_from0(ps) == SurfLoop(ps, 0, <<>>)

make_pore_surf_lines(ps) == SurfLoop(ps, 1, <<>>)

----------------------------------------------------------------------------
(* Specifications *)

NoPure == [in |-> <<>>, out |-> <<>>, ran |-> FALSE]

InitRun ==
    /\ pc = "idle"
    /\ num_pores = 0
    /\ x_range = <<0, 0>>
    /\ y_range = <<0, 0>>
    /\ z_range = <<0, 0>>
    /\ r_min = 0
    /\ r_max = 0
    /\ max_attempts = 0
    /\ seed = NoSeed
    /\ pores = <<>>
    /\ i = 0
    /\ placed = FALSE
    /\ attempt = 0
    /\ cand = <<>>
    /\ result = Pending
    /\ consumed = 0
    /\ calls = 0
    /\ seen = {}

\* one call of generate_random_pores, the generator in an unknown state
Init ==
    /\ InitRun
    /\ gen = [known |-> FALSE, s |-> 0]
    /\ entry_gen = gen
    /\ ov = NoPure
    /\ surf = NoPure

Call ==
    /\ pc = "idle"
    /\ \E a \in Args : Enter(a)

Next == Call \/ NextPore \/ Attempt \/ GiveUp \/ ReturnPores

Spec == Init /\ [][Next]_vars

\* calls one after another in one process, the generator in a definite state
InitSeq ==
    /\ InitRun
    /\ \E s0 \in BootStates : gen = [known |-> TRUE, s |-> s0]
    /\ entry_gen = gen
    /\ ov = NoPure
    /\ surf = NoPure

CallAgain ==
    /\ pc \in {"idle", "done"}
    /\ calls < MaxCalls
    /\ \E a \in SeqArgs : Enter(a)

NextSeq == CallAgain \/ NextPore \/ Attempt \/ GiveUp \/ ReturnPores

SpecSeq == InitSeq /\ [][NextSeq]_vars

\* check_overlap applied to an input
InitOverlap ==
    /\ InitRun
    /\ gen = [known |-> FALSE, s |-> 0]
    /\ entry_gen = gen
    /\ \E in \in OvInputs : ov = [in |-> in, out |-> <<>>, ran |-> FALSE]
    /\ surf = NoPure

CheckOverlap ==
    /\ ~ov.ran
    /\ ov' = [ov EXCEPT !.ran = TRUE,
                         !.out = << check_overlap(ov.in[1], ov.in[2], ov.in[3], ov.in[4],
                                                  ov.in[5], ov.in[6], ov.in[7], ov.in[8]) >>]
    /\ UNCHANGED <<pc, params, loopvars, result, genvars, calls, seen, surf>>

SpecOverlap == InitOverlap /\ [][CheckOverlap]_vars

\* make_pore_surf_lines applied to a pore list
InitSurf ==
    /\ InitRun
    /\ gen = [known |-> FALSE, s |-> 0]
    /\ entry_gen = gen
    /\ ov = NoPure
    /\ \E ps \in ListsUpTo(SurfPores, MaxLines) : surf = [in |-> ps, out |-> <<>>, ran |-> FALSE]

MakePoreSurfLines ==
    /\ ~surf.ran
    /\ surf' = [surf EXCEPT !.ran = TRUE, !.out = make_pore_surf_lines(surf.in)]
    /\ UNCHANGED <<pc, params, loopvars, result, genvars, calls, seen, ov>>

SpecSurf == InitSurf /\ [][MakePoreSurfLines]_vars

----------------------------------------------------------------------------
(* Properties *)

Dist2(a, b) == (b[1] - a[1])^2 + (b[2] - a[2])^2 + (b[3] - a[3])^2

\* the distance between the centres of a and b is strictly less than the sum
\* of their radii
Closer(a, b) == a[4] + b[4] > 0 /\ Dist2(a, b) < (a[4] + b[4]) * (a[4] + b[4])

Apart(ps) == \A a, b \in 1..Len(ps) : a # b => ~Closer(ps[a], ps[b])

\* C1: the accepted pores, at every point of the loop, and the pores of every
\* returned list are pairwise at a centre distance of at least the sum of
\* their radii.
C1_NonOverlap == Apart(pores) /\ (result.tag = "list" => Apart(result.val))

C1_Witness ==
    /\ pc = "done"
    /\ result.tag = "list"
    /\ Len(result.val) >= 2
    /\ consumed > 4 * Len(result.val)

\* C2: a returned list has exactly num_pores elements, and a call for zero
\* pores returns the empty list whatever its other arguments.
C2_Count ==
    pc = "done" =>
        /\ result.tag = "list" => Len(result.val) = num_pores
        /\ num_pores = 0 => result = List(<<>>)

C2_Witness == pc = "done" /\ result.tag = "list" /\ num_pores >= 2

\* the spheres a call's arguments allow it to draw
Lo(rg) == IF rg[1] <= rg[2] THEN rg[1] ELSE rg[2]
Hi(rg) == IF rg[1] <= rg[2] THEN rg[2] ELSE rg[1]
Drawable ==
    { <<x, y, z, r>> : x \in Lo(x_range)..Hi(x_range), y \in Lo(y_range)..Hi(y_range),
                       z \in Lo(z_range)..Hi(z_range), r \in Lo(<<r_min, r_max>>)..Hi(<<r_min, r_max>>) }

\* no two drawable spheres fit together, and two or more are asked for
CannotFit == num_pores >= 2 /\ \A a, b \in Drawable : Closer(a, b)

\* C3: when a pore's budget is used up the call returns the failure signal at
\* once, without a further draw and never with the pores placed so far; a
\* call that ends before every pore is placed, or whose request cannot fit,
\* has returned the failure signal.
C3_FailFast ==
    /\ [][(pc = "inner" /\ attempt >= max_attempts) =>
            (pc' = "done" /\ result' = None /\ consumed' = consumed /\ gen' = gen)]_vars
    /\ [](pc = "done" /\ Len(pores) < num_pores => result = None)
    /\ [](pc = "done" /\ CannotFit => result = None)

C3_Witness ==
    /\ pc = "done"
    /\ result = None
    /\ Len(pores) >= 1
    /\ ~CannotFit

\* the candidate an attempt draws from the seeded generator in state s: the
\* first variate gives x, the second y, the third z, the fourth the radius
InOrder(s) ==
    << Uniform(x_range[1], x_range[2], Variate(s)),
       Uniform(y_range[1], y_range[2], Variate(Step(s))),
       Uniform(z_range[1], z_range[2], Variate(Step(Step(s)))),
       Uniform(r_min, r_max, Variate(Step(Step(Step(s))))) >>

\* C4: a seeded call returns what the earlier calls with the same arguments
\* and seed returned, whatever was called before or in between, and every
\* attempt takes x, y, z and the radius from the generator in that order.
C4_Deterministic ==
    /\ [](pc = "done" /\ seed # NoSeed =>
            \A e \in seen : e.key = params => e.res = result)
    /\ [][(consumed' = consumed + 4 /\ gen.known) =>
            (cand' = InOrder(gen.s) /\ gen'.s = Step(Step(Step(Step(gen.s)))))]_vars

C4_Witness ==
    /\ pc = "done"
    /\ seed # NoSeed
    /\ result.tag = "list"
    /\ consumed > 4 * num_pores
    /\ Cardinality(seen) >= 2
    /\ \E e \in seen : e.key = params /\ e.call < calls - 1

\* C5: check_overlap is true exactly when the centre distance is strictly
\* less than r1 + r2: for non-negative radii, when the squared distance is
\* less than (r1 + r2)^2; touching spheres do not overlap, concentric spheres
\* of positive radius sum do.
C5_Overlap ==
    ov.ran =>
        LET a == SubSeq(ov.in, 1, 4)
            b == SubSeq(ov.in, 5, 8)
            sum == a[4] + b[4]
        IN  /\ ov.out[1] <=> Closer(a, b)
            /\ (a[4] >= 0 /\ b[4] >= 0) => (ov.out[1] <=> Dist2(a, b) < sum * sum)
            /\ (sum >= 0 /\ Dist2(a, b) = sum * sum) => ~ov.out[1]
            /\ (sum > 0 /\ Dist2(a, b) = 0) => ov.out[1]

C5_Witness ==
    /\ ov.ran
    /\ ov.in[4] > 0
    /\ ov.in[8] > 0
    /\ Dist2(SubSeq(ov.in, 1, 4), SubSeq(ov.in, 5, 8)) = (ov.in[4] + ov.in[8]) * (ov.in[4] + ov.in[8])
    /\ ov.out = <<FALSE>>

\* what is left of the run, counted in steps
Variant ==
    CASE pc = "idle" -> 2 + MaxPores * (MaxAttempts + 2)
      [] pc = "outer" -> 1 + (num_pores - i) * (max_attempts + 2)
      [] pc = "inner" -> (num_pores - i) * (max_attempts + 2) - attempt
      [] OTHER -> 0

\* C6: a run ends: every step brings it closer to its end and it can step
\* until it has returned; it makes at most num_pores * max_attempts candidate
\* draws (four variates each), at most max_attempts for one pore, the count
\* starting again for every pore, and none at all for zero pores.
C6_Terminates ==
    /\ [][Variant' < Variant /\ Variant' >= 0]_vars
    /\ [](pc # "done" => ENABLED Next)
    /\ [](consumed <= 4 * num_pores * max_attempts)
    /\ [](attempt <= max_attempts /\ consumed <= 4 * (i * max_attempts + attempt + 1))
    /\ [][(pc = "outer" /\ pc' = "inner") => attempt' = 0]_vars
    /\ [](num_pores = 0 => consumed = 0)

C6_Witness ==
    /\ pc = "done"
    /\ num_pores >= 2
    /\ max_attempts >= 2
    /\ consumed = 4 * (1 + (num_pores - 1) * max_attempts)

\* C7 as claimed: the outcome of a call does not depend on the calls before
\* it: a call returns what the earlier calls with the same arguments (its
\* seed, or the absence of one, among them) returned.
C7_Independent ==
    pc = "done" => \A e \in seen : e.key = params => e.res = result

\* C7, amended: generate_random_pores keeps nothing of its own between calls,
\* every call starting from the empty list, but it draws from the process-wide
\* generator that every call advances: a call returns what the earlier calls
\* with the same arguments that started from the same generator state returned.
C7_GeneratorOnly ==
    /\ [](pc = "done" =>
            \A e \in seen : (e.key = params /\ e.gen = entry_gen) => e.res = result)
    /\ [][(pc \in {"idle", "done"} /\ pc' = "outer") =>
            (pores' = <<>> /\ i' = 0 /\ consumed' = 0)]_vars

C7_Witness ==
    /\ pc = "done"
    /\ seed = NoSeed
    /\ result.tag = "list"
    /\ \E e \in seen : e.key = params /\ e.call < calls /\ e.gen = entry_gen

WellFormed ==
    /\ x_range[1] <= x_range[2]
    /\ y_range[1] <= y_range[2]
    /\ z_range[1] <= z_range[2]
    /\ r_min <= r_max

Contained(p) ==
    /\ x_range[1] <= p[1] /\ p[1] <= x_range[2]
    /\ y_range[1] <= p[2] /\ p[2] <= y_range[2]
    /\ z_range[1] <= p[3] /\ p[3] <= z_range[2]
    /\ r_min <= p[4] /\ p[4] <= r_max

\* C8: with well-formed ranges every accepted pore, and every pore of a
\* returned list, has its centre in the box, bounds included, and its radius
\* in [r_min, r_max].
C8_Containment ==
    WellFormed =>
        /\ \A k \in 1..Len(pores) : Contained(pores[k])
        /\ result.tag = "list" => \A k \in 1..Len(result.val) : Contained(result.val[k])

C8_Witness ==
    /\ pc = "done"
    /\ WellFormed
    /\ result.tag = "list"
    /\ \E k \in 1..Len(result.val) :
         result.val[k][1] = x_range[2] /\ x_range[1] < x_range[2]

\* C9: make_pore_surf_lines returns one line per pore, in input order; the
\* k-th line has the fields k, s, x, y, z, radius of the k-th pore.
C9_SurfLines ==
    surf.ran =>
        /\ Len(surf.out) = Len(surf.in)
        /\ \A k \in 1..Len(surf.in) :
             surf.out[k] = << ToString(k), "s", ToString(surf.in[k][1]), ToString(surf.in[k][2]),
                              ToString(surf.in[k][3]), ToString(surf.in[k][4]) >>

C9_Witness ==
    /\ surf.ran
    /\ Len(surf.in) = 3
    /\ surf.in[1] # surf.in[2]
    /\ surf.out[3][1] = "3"

\* C10: a draw is rejected exactly when it is closer to an accepted pore than
\* the sum of the radii; a rejected draw leaves the accepted sequence as it
\* is and an accepted one is appended to it; the sequence only ever grows at
\* its end; the first pore is accepted on its first draw.
C10_AppendOnly ==
    /\ [][consumed' = consumed + 4 =>
            IF \E k \in 1..Len(pores) : Closer(cand', pores[k])
            THEN pores' = pores /\ attempt' = attempt + 1
            ELSE pores' = pores \o <<cand'>>]_vars
    /\ [][pc # "idle" =>
            \/ pores' = pores
            \/ Len(pores') = Len(pores) + 1 /\ SubSeq(pores', 1, Len(pores)) = pores]_vars
    /\ [](i = 0 => attempt = 0)
    /\ [](consumed >= 4 => Len(pores) >= 1)

C10_Witness ==
    /\ pc = "inner"
    /\ attempt >= 1
    /\ Len(pores) >= 1
    /\ \E k \in 1..Len(pores) : Closer(cand, pores[k])

====
